---- MODULE Spec2Model ----
(***************************************************************************)
(* Debounced toggle over the Matter attribute bus: the button poller       *)
(* (loop), the attribute bridge (on_attribute_update) and the framework's  *)
(* attribute store, for the three device variants of the repository:       *)
(*   "light"   - src/auto-curtain/src/main.cpp (and both sketches of       *)
(*               src/unnamed/part_001, which repeat it line for line)      *)
(*   "two"     - TwoEndpointsPluginUnit.cpp, two channels, one timer       *)
(*   "curtain" - src/unnamed/part_000, a WindowCovering endpoint           *)
(***************************************************************************)
EXTENDS Integers, Sequences, FiniteSets, TLC

VARIABLES
    variant,      \* which sketch is flashed
    realtime,     \* true milliseconds since boot (millis() is this modulo Word)
    last_toggle,  \* int last_toggle
    btn,          \* level of each button pin, TRUE = HIGH (released), FALSE = LOW
    pin,          \* level of each LED pin, TRUE = HIGH
    store,        \* the framework's attribute store, by <<endpoint, cluster, attribute>>
    pc,           \* position of loop(): "idle", "button", "read", "write" ("set":
                  \* between the inversion and the update, where they are two steps)
    ch,           \* the channel (button) loop() is handling
    onoff_value,  \* loop()'s local esp_matter_attr_val_t
    raced,        \* history: the remote commit that hit the attribute after loop() read it
    calls,        \* history: the callback invocations of the last framework operation
    lastStamp,    \* history: true time of each channel's last trigger
    toggles,      \* history: number of triggers of each channel
    held,         \* history: per button, start of the press in progress and its triggers
    presses,      \* history: number of presses of each button
    remotes,      \* history: number of remote commits
    fired,        \* history: the channels triggered in the current iteration of loop()
    polled,       \* history: outcome of the last debounce test of this millisecond
    late          \* history: a millisecond passed without a complete poll of loop()

vars == <<variant, realtime, last_toggle, btn, pin, store, pc, ch, onoff_value,
          raced, calls, lastStamp, toggles, held, presses, remotes, fired, polled, late>>

(***************************************************************************)
(* Bounds of the model.                                                    *)
(***************************************************************************)
MaxTime == 1002
MaxJitter == 2
MaxEvents == 2
MaxEndpoint == 3
MaxRaw == 2
\* the largest byte a read of the operational status returns
MaxByte == 255
\* millis() and last_toggle are 32 bits wide; the model keeps the same modular
\* arithmetic on a narrower word, wide enough for MaxTime
WordBits == 12

(***************************************************************************)
(* Program constants.                                                      *)
(***************************************************************************)
DEBOUNCE_DELAY == 500
LED_PIN_1 == 0
LED_PIN_2 == 1
TOGGLE_BUTTON_PIN_1 == 9
TOGGLE_BUTTON_PIN_2 == 8
CLUSTER_ID == 6
ATTRIBUTE_ID == 0
CURTAIN_CLUSTER_ID == 258
CURTAIN_ATTRIBUTE_ID == 10

Variants == {"light", "two", "curtain"}
Word == 2^WordBits
NULL == <<>>
NoTime == 0 - 1
NoPress == [start |-> NoTime, n |-> 0]
NoRace == [path |-> NULL, val |-> NULL]

\* esp_matter_invalid(NULL): type INVALID, the union zeroed
Invalid == [type |-> "invalid", v |-> 0]
Bool(b) == [type |-> "bool", v |-> IF b THEN 1 ELSE 0]
U8(x) == [type |-> "u8", v |-> x]

\* the projection negated
ValBInverted(val) == val.v = 0

\* val->val.b : the boolean projection of a value
ValB(val) == val.v # 0

Channels(var) == IF var = "two" THEN {1, 2} ELSE {1}

\* the endpoint ids the framework hands out after the root node (endpoint 0)
endpoint_id(c) == c

LED_PIN(c) == IF c = 1 THEN LED_PIN_1 ELSE LED_PIN_2

TOGGLE_BUTTON_PIN(c) == IF c = 1 THEN TOGGLE_BUTTON_PIN_1 ELSE TOGGLE_BUTTON_PIN_2

LedPins(var) == { LED_PIN(c) : c \in Channels(var) }
ButtonPins(var) == { TOGGLE_BUTTON_PIN(c) : c \in Channels(var) }

\* the <<endpoint, cluster, attribute>> triple on_attribute_update routes channel c on
Route(var, c) ==
    IF var = "curtain"
    THEN <<endpoint_id(c), CURTAIN_CLUSTER_ID, CURTAIN_ATTRIBUTE_ID>>
    ELSE <<endpoint_id(c), CLUSTER_ID, ATTRIBUTE_ID>>

\* the triple loop() reads and updates channel c through
LocalPath(c) == <<endpoint_id(c), CLUSTER_ID, ATTRIBUTE_ID>>

\* the attributes setup creates, with their defaults
InitialStore(var) ==
    [p \in { Route(var, c) : c \in Channels(var) } |->
        IF var = "curtain" THEN U8(0) ELSE Bool(FALSE)]

\* the handle resolved on the triple the callback routes on
attribute_ref_routed(c) == Route(variant, c)

\* attribute::get(cluster::get(endpoint, CLUSTER_ID), ATTRIBUTE_ID)
attribute_ref(c) == IF LocalPath(c) \in DOMAIN store THEN LocalPath(c) ELSE NULL

\* millis()
millis == realtime % Word

\* a conversion that saturates at the largest int instead of wrapping
ToIntClamped(u) == IF u >= Word \div 2 THEN Word \div 2 - 1 ELSE u

\* conversion of an unsigned long to int
ToInt(u) == IF u >= Word \div 2 THEN u - Word ELSE u

\* the test with its operands exchanged
GateOpenSwapped == ((last_toggle - millis) % Word) > DEBOUNCE_DELAY

\* the test with >= for >
GateOpenInclusive == ((millis - last_toggle) % Word) >= DEBOUNCE_DELAY

\* the debounce test of loop(): (millis() - last_toggle) > DEBOUNCE_DELAY, in
\* unsigned arithmetic modulo Word
GateOpen == ((millis - last_toggle) % Word) > DEBOUNCE_DELAY

\* the value written back without the negation
InvertNone(v) == v

\* onoff_value.val.b = !onoff_value.val.b  (curtain: val.u8 = !val.u8)
Invert(v) == IF v = 0 THEN 1 ELSE 0

\* the trigger without its timestamp
KeepLastToggle == last_toggle

\* last_toggle = millis();
NewLastToggle == ToInt(millis)

(***************************************************************************)
(* Attribute bridge: on_attribute_update of each variant.  The result is   *)
(* the LED levels after the call, the digitalWrite calls it made, and its  *)
(* return value.                                                           *)
(***************************************************************************)
CallbackTypes == {"PRE_UPDATE", "POST_UPDATE", "READ", "WRITE"}

\* a callback that writes no pin; updates are the attribute::update calls a
\* callback makes, none in any sketch
NoWrite(pins) == [pin |-> pins, writes |-> <<>>, updates |-> <<>>, ret |-> "ESP_OK"]

\* a write that flips the pin instead of setting it
digitalWriteFlip(pins, p, level) ==
    [pin |-> [pins EXCEPT ![p] = ~pins[p]], writes |-> << <<p, ~pins[p]>> >>,
     updates |-> <<>>, ret |-> "ESP_OK"]

digitalWrite(pins, p, level) ==
    [pin |-> [pins EXCEPT ![p] = level], writes |-> << <<p, level>> >>,
     updates |-> <<>>, ret |-> "ESP_OK"]

\* a callback that answers a notification by updating the attribute it is about
on_attribute_update_echo(type, ep, cl, at, val, pins) ==
    [NoWrite(pins) EXCEPT !.updates = << [path |-> <<ep, cl, at>>, val |-> val] >>]

\* the callback without the test of the callback type
on_attribute_update_anytype(type, ep, cl, at, val, pins) ==
    IF ep = endpoint_id(1) /\ cl = CLUSTER_ID /\ at = ATTRIBUTE_ID
    THEN digitalWrite(pins, LED_PIN_1, ValB(val))
    ELSE NoWrite(pins)

on_attribute_update_light(type, ep, cl, at, val, pins) ==
    IF type = "PRE_UPDATE" /\ ep = endpoint_id(1) /\ cl = CLUSTER_ID /\ at = ATTRIBUTE_ID
    THEN digitalWrite(pins, LED_PIN_1, ValB(val))
    ELSE NoWrite(pins)

\* the second branch as a plain else: any other endpoint drives LED 2
on_attribute_update_two_else(type, ep, cl, at, val, pins) ==
    IF type = "PRE_UPDATE" /\ cl = CLUSTER_ID /\ at = ATTRIBUTE_ID
    THEN IF ep = endpoint_id(1) THEN digitalWrite(pins, LED_PIN_1, ValB(val))
         ELSE digitalWrite(pins, LED_PIN_2, ValB(val))
    ELSE NoWrite(pins)

\* the two LED pins exchanged
on_attribute_update_two_swapped(type, ep, cl, at, val, pins) ==
    IF type = "PRE_UPDATE" /\ cl = CLUSTER_ID /\ at = ATTRIBUTE_ID
    THEN IF ep = endpoint_id(1) THEN digitalWrite(pins, LED_PIN_2, ValB(val))
         ELSE IF ep = endpoint_id(2) THEN digitalWrite(pins, LED_PIN_1, ValB(val))
         ELSE NoWrite(pins)
    ELSE NoWrite(pins)

on_attribute_update_two(type, ep, cl, at, val, pins) ==
    IF type = "PRE_UPDATE" /\ cl = CLUSTER_ID /\ at = ATTRIBUTE_ID
    THEN IF ep = endpoint_id(1) THEN digitalWrite(pins, LED_PIN_1, ValB(val))
         ELSE IF ep = endpoint_id(2) THEN digitalWrite(pins, LED_PIN_2, ValB(val))
         ELSE NoWrite(pins)
    ELSE NoWrite(pins)

\* the digitalWrite of the curtain sketch is commented out: it only prints
on_attribute_update_curtain(type, ep, cl, at, val, pins) ==
    NoWrite(pins)

on_attribute_update(type, ep, cl, at, val, pins) ==
    CASE variant = "light" -> on_attribute_update_light(type, ep, cl, at, val, pins)
      [] variant = "two" -> on_attribute_update_two(type, ep, cl, at, val, pins)
      [] OTHER -> on_attribute_update_curtain(type, ep, cl, at, val, pins)

\* one callback invocation, as the history records it
Call(type, ep, cl, at, val, r) ==
    [type |-> type, path |-> <<ep, cl, at>>, val |-> val,
     writes |-> r.writes, updates |-> r.updates, ret |-> r.ret]

(***************************************************************************)
(* The framework: attribute::get_val and attribute::update.  update calls  *)
(* the callback with PRE_UPDATE, commits the value, then calls it with     *)
(* POST_UPDATE; it fails, changing nothing, for an attribute the endpoint  *)
(* does not have or a value of the wrong type.                             *)
(***************************************************************************)
attribute_get_val(ref) == IF ref = NULL THEN Invalid ELSE store[ref]

\* the store after the updates a callback asked for
RECURSIVE ApplyUpdates(_, _)
ApplyUpdates(st, reqs) ==
    IF reqs = <<>> THEN st
    ELSE LET r == Head(reqs) IN
         ApplyUpdates(IF r.path \in DOMAIN st THEN [st EXCEPT ![r.path] = r.val] ELSE st,
                      Tail(reqs))

attribute_update(ep, cl, at, val) ==
    LET path == <<ep, cl, at>> IN
    IF path \notin DOMAIN store \/ val.type # store[path].type
    THEN [store |-> store, pin |-> pin, calls |-> <<>>]
    ELSE LET pre == on_attribute_update("PRE_UPDATE", ep, cl, at, val, pin)
             post == on_attribute_update("POST_UPDATE", ep, cl, at, val, pre.pin)
         IN [store |-> ApplyUpdates([store EXCEPT ![path] = val], pre.updates \o post.updates),
             pin |-> post.pin,
             calls |-> << Call("PRE_UPDATE", ep, cl, at, val, pre),
                          Call("POST_UPDATE", ep, cl, at, val, post) >>]

\* the value remembered from setup, not the store's
get_remembered(ref) == IF ref = NULL THEN Invalid ELSE InitialStore(variant)[ref]

\* get_onoff_attribute_value / get_curtain_attribute_value
get_onoff_attribute_value(ref) == attribute_get_val(ref)

\* set_onoff_attribute_value / set_curtain_attribute_value
set_onoff_attribute_value(val, ep) == attribute_update(ep, CLUSTER_ID, ATTRIBUTE_ID, val)

(***************************************************************************)
(* State after setup().                                                    *)
(***************************************************************************)
Init ==
    /\ variant \in Variants
    /\ realtime = 0
    /\ last_toggle = 0
    /\ btn = [p \in ButtonPins(variant) |-> TRUE]
    /\ pin = [p \in LedPins(variant) |-> FALSE]
    /\ store = InitialStore(variant)
    /\ pc = "idle"
    /\ ch = 1
    /\ onoff_value = Invalid
    /\ raced = NoRace
    /\ calls = <<>>
    /\ lastStamp = [c \in Channels(variant) |-> NoTime]
    /\ toggles = [c \in Channels(variant) |-> 0]
    /\ held = [p \in ButtonPins(variant) |-> NoPress]
    /\ presses = [p \in ButtonPins(variant) |-> 0]
    /\ remotes = 0
    /\ fired = {}
    /\ polled = "no"
    /\ late = FALSE

(***************************************************************************)
(* Environment: time, the buttons, remote commits.                         *)
(***************************************************************************)
TickSteps == {1, DEBOUNCE_DELAY}

\* the presses and remote commits so far
RECURSIVE Sum(_, _)
Sum(f, S) == IF S = {} THEN 0 ELSE LET x == CHOOSE y \in S : TRUE IN f[x] + Sum(f, S \ {x})
Events == Sum(presses, DOMAIN presses) + remotes

Tick(d) ==
    /\ realtime + d <= MaxTime
    /\ d = 1 => (realtime % DEBOUNCE_DELAY) < MaxJitter
    /\ realtime' = realtime + d
    /\ polled' = "no"
    /\ late' = (late \/ pc # "idle" \/ polled = "no")
    /\ UNCHANGED <<variant, last_toggle, btn, pin, store, pc, ch, onoff_value,
                   raced, calls, lastStamp, toggles, held, presses, remotes, fired>>

Press(b) ==
    /\ btn[b]
    /\ Events < MaxEvents
    /\ btn' = [btn EXCEPT ![b] = FALSE]
    /\ held' = [held EXCEPT ![b] = [start |-> realtime, n |-> 0]]
    /\ presses' = [presses EXCEPT ![b] = @ + 1]
    /\ UNCHANGED <<variant, realtime, last_toggle, pin, store, pc, ch, onoff_value,
                   raced, calls, lastStamp, toggles, remotes, fired, polled, late>>

Release(b) ==
    /\ ~btn[b]
    /\ btn' = [btn EXCEPT ![b] = TRUE]
    /\ held' = [held EXCEPT ![b] = NoPress]
    /\ UNCHANGED <<variant, realtime, last_toggle, pin, store, pc, ch, onoff_value,
                   raced, calls, lastStamp, toggles, presses, remotes, fired, polled, late>>

RemoteValues(path) ==
    IF store[path].type = "bool" THEN {Bool(FALSE), Bool(TRUE)}
    ELSE { U8(x) : x \in 0..MaxRaw }

\* a controller's write: the framework commits it through attribute::update
RemoteUpdate(path, val) ==
    /\ Events < MaxEvents
    /\ LET r == attribute_update(path[1], path[2], path[3], val) IN
        /\ store' = r.store
        /\ pin' = r.pin
        /\ calls' = r.calls
    /\ raced' = IF pc = "write" /\ path = attribute_ref(ch)
                THEN [path |-> path, val |-> val]
                ELSE raced
    /\ remotes' = remotes + 1
    /\ UNCHANGED <<variant, realtime, last_toggle, btn, pc, ch, onoff_value,
                   lastStamp, toggles, held, presses, fired, polled, late>>

\* the framework delivers one notification, for any attribute of the node
Deliver(type, ep, cl, at, val) ==
    /\ LET r == on_attribute_update(type, ep, cl, at, val, pin) IN
        /\ pin' = r.pin
        /\ store' = ApplyUpdates(store, r.updates)
        /\ calls' = << Call(type, ep, cl, at, val, r) >>
    /\ UNCHANGED <<variant, realtime, last_toggle, btn, pc, ch, onoff_value,
                   raced, lastStamp, toggles, held, presses, remotes, fired, polled, late>>

(***************************************************************************)
(* loop(), statement by statement.                                         *)
(***************************************************************************)
\* the statement after channel c's if-block
AfterChannel(c) ==
    IF variant = "two" /\ c = 1
    THEN pc' = "button" /\ ch' = 2 /\ fired' = fired
    ELSE pc' = "idle" /\ ch' = 1 /\ fired' = {}

LoopGate ==
    /\ pc = "idle"
    /\ IF GateOpen
       THEN pc' = "button" /\ polled' = "open"
       ELSE pc' = "idle" /\ polled' = "closed"
    /\ UNCHANGED <<variant, realtime, last_toggle, btn, pin, store, ch, onoff_value,
                   raced, calls, lastStamp, toggles, held, presses, remotes, fired, late>>

\* if (!digitalRead(TOGGLE_BUTTON_PIN))
LoopButton ==
    /\ pc = "button"
    /\ IF ~btn[TOGGLE_BUTTON_PIN(ch)]
       THEN /\ pc' = "read"
            /\ ch' = ch
            /\ held' = [held EXCEPT ![TOGGLE_BUTTON_PIN(ch)].n = @ + 1]
            /\ fired' = fired \cup {ch}
       ELSE /\ AfterChannel(ch)
            /\ held' = held
    /\ UNCHANGED <<variant, realtime, last_toggle, btn, pin, store, onoff_value,
                   raced, calls, lastStamp, toggles, presses, remotes, polled, late>>

\* last_toggle = millis();
\* esp_matter_attr_val_t onoff_value = get_onoff_attribute_value();
LoopRead ==
    /\ pc = "read"
    /\ last_toggle' = NewLastToggle
    /\ lastStamp' = [lastStamp EXCEPT ![ch] = realtime]
    /\ toggles' = [toggles EXCEPT ![ch] = @ + 1]
    /\ onoff_value' = get_onoff_attribute_value(attribute_ref(ch))
    /\ raced' = NoRace
    /\ pc' = "write"
    /\ UNCHANGED <<variant, realtime, btn, pin, store, ch,
                   calls, held, presses, remotes, fired, polled, late>>

\* onoff_value.val.b = !onoff_value.val.b; set_onoff_attribute_value(&onoff_value);
LoopWrite ==
    /\ pc = "write"
    /\ LET r == set_onoff_attribute_value([onoff_value EXCEPT !.v = Invert(@)],
                                          endpoint_id(ch)) IN
        /\ store' = r.store
        /\ pin' = r.pin
        /\ calls' = r.calls
    /\ onoff_value' = Invalid
    /\ AfterChannel(ch)
    /\ UNCHANGED <<variant, realtime, last_toggle, btn,
                   raced, lastStamp, toggles, held, presses, remotes, polled, late>>

Next ==
    \/ \E d \in TickSteps : Tick(d)
    \/ \E b \in ButtonPins(variant) : Press(b)
    \/ \E b \in ButtonPins(variant) : Release(b)
    \/ \E path \in DOMAIN store : \E val \in RemoteValues(path) : RemoteUpdate(path, val)
    \/ LoopGate
    \/ LoopButton
    \/ LoopRead
    \/ LoopWrite

Spec == Init /\ [][Next]_vars

(***************************************************************************)
(* The bridge alone: any notification the framework can deliver.           *)
(***************************************************************************)
DeliverValues == {Bool(FALSE), Bool(TRUE)} \cup { U8(x) : x \in 0..MaxRaw }

NextBridge ==
    \E type \in CallbackTypes, ep \in 0..MaxEndpoint,
       cl \in {CLUSTER_ID, CURTAIN_CLUSTER_ID, CLUSTER_ID + 1},
       at \in {ATTRIBUTE_ID, CURTAIN_ATTRIBUTE_ID, ATTRIBUTE_ID + 1},
       val \in DeliverValues :
        Deliver(type, ep, cl, at, val)

SpecBridge == Init /\ [][NextBridge]_vars

(***************************************************************************)
(* Properties.                                                             *)
(***************************************************************************)
\* the step of loop() that decides to toggle channel c: its button read LOW
Trigger(c) == pc = "button" /\ ch = c /\ pc' = "read"

\* the step that ends the press of button b
Released(b) == ~btn[b] /\ btn'[b]

\* how long button b has been held
HeldFor(b) == realtime - held[b].start

OtherChannel(c) == IF c = 1 THEN 2 ELSE 1

\* loop() has completed a poll in every millisecond so far, this one included
Prompt == ~late /\ polled # "no" /\ pc = "idle"

\* C1: for a channel whose attribute handle resolved, loop() reads the store's
\* present value in the iteration that toggles, and when no remote commit lands
\* between that read and the update, the store then holds the negation of the
\* value it held just before.
C1_ToggleNegates ==
    [][ /\ (pc = "read" /\ pc' = "write" /\ attribute_ref(ch) # NULL)
            => onoff_value' = store[attribute_ref(ch)]
        /\ (pc = "write" /\ pc' # "write" /\ attribute_ref(ch) # NULL /\ raced = NoRace)
            => store'[attribute_ref(ch)] = Bool(~ValB(store[attribute_ref(ch)])) ]_vars

C1_Witness ==
    /\ variant # "curtain"
    /\ pc = "idle"
    /\ raced = NoRace
    /\ remotes = 0
    /\ \E c \in Channels(variant) : toggles[c] >= 1 /\ store[LocalPath(c)] = Bool(TRUE)

\* C2: a channel's trigger comes more than DEBOUNCE_DELAY ms after that
\* channel's previous trigger.
C2_OneTogglePerWindow ==
    [][ \A c \in Channels(variant) :
            (toggles'[c] # toggles[c] /\ lastStamp[c] # NoTime)
                => realtime' - lastStamp[c] > DEBOUNCE_DELAY ]_vars

C2_Witness == \E c \in Channels(variant) : toggles[c] >= 2

\* C3: when a remote commit lands between loop()'s read and its update, the
\* update still writes the negation of the value read before the commit, so the
\* remote value is overwritten.
C3_StaleWrite ==
    [][ (pc = "write" /\ pc' # "write" /\ raced # NoRace)
            => store'[raced.path] = Bool(~ValB(onoff_value)) ]_vars

C3_Witness ==
    /\ raced # NoRace
    /\ pc # "write"
    /\ remotes = 1
    /\ store[raced.path] # raced.val

\* C4: every PRE_UPDATE notification whose triple is a channel's route makes
\* exactly one digitalWrite, of that channel's LED pin, with the value's boolean.
C4_OneWritePerMatch ==
    \A i \in DOMAIN calls : \A c \in Channels(variant) :
        (calls[i].type = "PRE_UPDATE" /\ calls[i].path = Route(variant, c))
            => calls[i].writes = << <<LED_PIN(c), ValB(calls[i].val)>> >>

\* C5: a notification whose triple is no channel's route writes no pin and
\* returns ESP_OK.
C5_RoutingMiss ==
    \A i \in DOMAIN calls :
        (\A c \in Channels(variant) : calls[i].path # Route(variant, c))
            => calls[i].writes = <<>> /\ calls[i].ret = "ESP_OK"

C5_Witness ==
    /\ variant = "two"
    /\ calls # <<>>
    /\ calls[1].type = "PRE_UPDATE"
    /\ calls[1].path = <<endpoint_id(2) + 1, CLUSTER_ID, ATTRIBUTE_ID>>
    /\ calls[1].writes = <<>>

C8_OnlyChannelOne ==
    (variant = "two" /\ remotes = 0 /\ presses[TOGGLE_BUTTON_PIN_2] = 0)
        => /\ store[LocalPath(2)] = Bool(FALSE)
           /\ ~pin[LED_PIN_2]
           /\ (toggles[1] = 1 /\ pc # "write")
                => (store[LocalPath(1)] = Bool(TRUE) /\ pin[LED_PIN_1])

C8_Witness ==
    /\ variant = "two"
    /\ remotes = 0
    /\ presses[TOGGLE_BUTTON_PIN_2] = 0
    /\ toggles[1] = 1
    /\ pc = "idle"
    /\ pin[LED_PIN_1]

\* C9: two-endpoint variant, polled in every millisecond: a press that begins
\* inside the debounce window opened by the other button's trigger, with its own
\* channel idle for longer than a window, and that is polled while low, has
\* triggered its own channel by the time it is released.
C9_BothToggle ==
    [][ variant = "two" =>
          \A c \in Channels(variant) :
            LET b == TOGGLE_BUTTON_PIN(c)
                d == OtherChannel(c)
            IN ( /\ Released(b)
                 /\ Prompt
                 /\ HeldFor(b) >= 1
                 /\ lastStamp[d] # NoTime
                 /\ held[b].start >= lastStamp[d]
                 /\ realtime - lastStamp[d] <= DEBOUNCE_DELAY
                 /\ held[b].start > DEBOUNCE_DELAY
                 /\ (lastStamp[c] = NoTime
                        \/ held[b].start - lastStamp[c] > DEBOUNCE_DELAY) )
                    => held[b].n >= 1 ]_vars

\* C10: no press that began after the other channel's trigger is triggered
\* within the debounce window of that trigger, for either button.
C10_SuppressedBothWays ==
    [][ \A c \in Channels(variant) : \A d \in Channels(variant) \ {c} :
            ( /\ Trigger(c)
              /\ lastStamp[d] # NoTime
              /\ held[TOGGLE_BUTTON_PIN(c)].start > lastStamp[d] )
                => realtime - lastStamp[d] > DEBOUNCE_DELAY ]_vars

\* C10, amended: button 1 is never triggered within the debounce window of
\* channel 2's trigger; button 2 is triggered within the window of channel 1's
\* trigger only in the iteration of loop() that triggered channel 1.
C10_SharedTimer ==
    [][ \A c \in Channels(variant) : \A d \in Channels(variant) \ {c} :
            ( /\ Trigger(c)
              /\ lastStamp[d] # NoTime
              /\ realtime - lastStamp[d] <= DEBOUNCE_DELAY )
                => (c = 2 /\ d \in fired) ]_vars

C10_Witness ==
    /\ variant = "two"
    /\ polled = "closed"
    /\ pc = "idle"
    /\ ~btn[TOGGLE_BUTTON_PIN_1]
    /\ held[TOGGLE_BUTTON_PIN_1].n = 0
    /\ lastStamp[2] # NoTime
    /\ held[TOGGLE_BUTTON_PIN_1].start > lastStamp[2]
    /\ realtime - lastStamp[2] <= DEBOUNCE_DELAY

\* C11: with no button ever pressed, once a remote commit has set a channel's
\* boolean attribute to true, a read through the channel's handle returns true,
\* the channel's LED pin is high, and last_toggle is what setup left, at any
\* time: inside the debounce window after boot and after it.
C11_RemoteTrue ==
    \A c \in Channels(variant) :
        ( /\ \A b \in DOMAIN presses : presses[b] = 0
          /\ calls # <<>>
          /\ calls[1].path = LocalPath(c)
          /\ calls[1].val = Bool(TRUE) )
            => /\ get_onoff_attribute_value(attribute_ref(c)) = Bool(TRUE)
               /\ pin[LED_PIN(c)]
               /\ last_toggle = 0
               /\ pc \in {"idle", "button"}

C11_Witness ==
    /\ variant = "light"
    /\ \A b \in DOMAIN presses : presses[b] = 0
    /\ remotes = 2
    /\ calls # <<>>
    /\ calls[1].val = Bool(TRUE)
    /\ realtime > DEBOUNCE_DELAY
    /\ polled = "open"
    /\ pin[LED_PIN_1]

\* C12: no callback invocation asks for an attribute update, and one local
\* toggle or remote commit invokes the callback at most twice (PRE_UPDATE,
\* POST_UPDATE).
C12_NoReentrantUpdate ==
    /\ Len(calls) <= 2
    /\ \A i \in DOMAIN calls : calls[i].updates = <<>>

C12_Witness ==
    /\ toggles[1] >= 1
    /\ remotes >= 1
    /\ pc = "idle"
    /\ Len(calls) = 2
    /\ calls[1].type = "PRE_UPDATE"
    /\ calls[1].writes # <<>>
    /\ calls[2].type = "POST_UPDATE"

\* the notifications the framework can deliver
Notifications ==
    [type : CallbackTypes, ep : 0..MaxEndpoint,
     cl : {CLUSTER_ID, CURTAIN_CLUSTER_ID, CLUSTER_ID + 1},
     at : {ATTRIBUTE_ID, CURTAIN_ATTRIBUTE_ID, ATTRIBUTE_ID + 1},
     val : DeliverValues]

\* the callback's result for notification n with the LED pins at pins
Notify(n, pins) == on_attribute_update(n.type, n.ep, n.cl, n.at, n.val, pins)

\* C13: from any pin levels deliveries can produce, delivering a notification a
\* second time leaves the pins as the first delivery left them, and no delivery
\* touches the poller's state.
C13_Idempotent ==
    /\ \A n \in Notifications :
          Notify(n, Notify(n, pin).pin).pin = Notify(n, pin).pin
    /\ last_toggle = 0
    /\ pc = "idle"
    /\ onoff_value = Invalid

C13_Witness ==
    /\ variant = "two"
    /\ calls # <<>>
    /\ calls[1].type = "PRE_UPDATE"
    /\ calls[1].path = Route(variant, 2)
    /\ calls[1].val = Bool(TRUE)
    /\ calls[1].writes = << <<LED_PIN_2, TRUE>> >>
    /\ pin[LED_PIN_2]
    /\ ~pin[LED_PIN_1]
    /\ Notify([type |-> "PRE_UPDATE", ep |-> endpoint_id(2), cl |-> CLUSTER_ID,
               at |-> ATTRIBUTE_ID, val |-> Bool(TRUE)], pin).pin = pin

\* C14: whenever no toggle is in flight (a remote commit is one step), each
\* channel's LED pin is at the boolean value of the attribute the channel is
\* routed on.
C14_PinFollowsAttribute ==
    \A c \in Channels(variant) :
        pc \notin {"read", "write"}
            => pin[LED_PIN(c)] = ValB(store[Route(variant, c)])

\* C15: every read of loop() returns an initialised value, the present value of
\* the attribute the channel is routed on, never the invalid sentinel.
C15_ReadNeverInvalid ==
    [][ (pc = "read" /\ pc' = "write")
            => /\ onoff_value'.type # "invalid"
               /\ onoff_value' = store[Route(variant, ch)] ]_vars

\* C16: a channel whose button has never read LOW has never been toggled by
\* loop() nor stamped last_toggle (with no button ever LOW, last_toggle is what
\* setup left), and a remote commit to its attribute sets both the attribute and
\* the channel's LED pin.
C16_InactiveButton ==
    /\ (\A b \in DOMAIN presses : presses[b] = 0) => last_toggle = 0
    /\ \A c \in Channels(variant) :
          presses[TOGGLE_BUTTON_PIN(c)] = 0
            => /\ toggles[c] = 0
               /\ lastStamp[c] = NoTime
               /\ (calls # <<>> /\ calls[1].path = Route(variant, c))
                    => /\ store[Route(variant, c)] = calls[1].val
                       /\ pin[LED_PIN(c)] = (calls[1].val.v # 0)

\* millis() - last_toggle, as loop() computes it
Elapsed == (millis - last_toggle) % Word

\* a button that was LOW before this millisecond and still is, after a toggle
ActiveAfterToggle ==
    /\ \E c \in Channels(variant) : toggles[c] >= 1
    /\ \E b \in DOMAIN btn : ~btn[b] /\ HeldFor(b) > 0

\* C17: after a toggle, a poll that finds a button active with at least
\* DEBOUNCE_DELAY ms elapsed fires: the test of loop() comes out closed only
\* below the window.
C17_RearmsAtWindow ==
    (polled = "closed" /\ pc = "idle" /\ ActiveAfterToggle)
        => Elapsed < DEBOUNCE_DELAY

\* C17, amended: the poller is armed only when more than DEBOUNCE_DELAY ms have
\* elapsed: loop() goes on to read the buttons only then, and its test comes out
\* closed up to and including the window.
C17_RearmsAfterWindow ==
    [][ /\ (pc = "idle" /\ pc' = "button") => Elapsed > DEBOUNCE_DELAY
        /\ polled' = "closed" => Elapsed' <= DEBOUNCE_DELAY ]_vars

C17_Witness ==
    /\ polled = "closed"
    /\ pc = "idle"
    /\ Elapsed = DEBOUNCE_DELAY
    /\ ActiveAfterToggle

\* C18: an iteration of loop() that starts inside the debounce window ends at
\* its test: loop() reads no button and no attribute, updates nothing, writes no
\* pin and leaves last_toggle alone, whatever the button levels; store and pins
\* change only by a remote commit.
C18_SuppressedIgnores ==
    [][ (pc = "idle" /\ Elapsed <= DEBOUNCE_DELAY)
            => /\ pc' = "idle"
               /\ last_toggle' = last_toggle
               /\ onoff_value' = onoff_value
               /\ toggles' = toggles
               /\ fired' = fired
               /\ remotes' = remotes
                    => (store' = store /\ pin' = pin /\ calls' = calls) ]_vars

C18_Witness ==
    /\ polled = "closed"
    /\ pc = "idle"
    /\ Elapsed > 0
    /\ Elapsed < DEBOUNCE_DELAY
    /\ ActiveAfterToggle
    /\ \E b \in DOMAIN btn : ~btn[b] /\ held[b].n = 0 /\ HeldFor(b) > 0

(***************************************************************************)
(* The inversion alone: loop() of the curtain sketch just after its read,  *)
(* for every byte the read can return, with the inversion and the update   *)
(* as two steps.                                                           *)
(***************************************************************************)
InitInvert ==
    /\ variant = "curtain"
    /\ realtime = DEBOUNCE_DELAY + 1
    /\ last_toggle = DEBOUNCE_DELAY + 1
    /\ btn = [p \in ButtonPins(variant) |-> FALSE]
    /\ pin = [p \in LedPins(variant) |-> FALSE]
    /\ store = InitialStore(variant)
    /\ pc = "write"
    /\ ch = 1
    /\ onoff_value \in { U8(x) : x \in 0..MaxByte }
    /\ raced = NoRace
    /\ calls = <<>>
    /\ lastStamp = [c \in Channels(variant) |-> DEBOUNCE_DELAY + 1]
    /\ toggles = [c \in Channels(variant) |-> 1]
    /\ held = [p \in ButtonPins(variant) |-> [start |-> DEBOUNCE_DELAY + 1, n |-> 1]]
    /\ presses = [p \in ButtonPins(variant) |-> 1]
    /\ remotes = 0
    /\ fired = {1}
    /\ polled = "open"
    /\ late = FALSE

\* curtain_value.val.u8 = !curtain_value.val.u8;
InvertStatement ==
    /\ pc = "write"
    /\ onoff_value' = [onoff_value EXCEPT !.v = Invert(@)]
    /\ pc' = "set"
    /\ UNCHANGED <<variant, realtime, last_toggle, btn, pin, store, ch, raced, calls,
                   lastStamp, toggles, held, presses, remotes, fired, polled, late>>

\* set_curtain_attribute_value(&curtain_value);
SetStatement ==
    /\ pc = "set"
    /\ LET r == set_onoff_attribute_value(onoff_value, endpoint_id(ch)) IN
        /\ store' = r.store
        /\ pin' = r.pin
        /\ calls' = r.calls
    /\ onoff_value' = Invalid
    /\ AfterChannel(ch)
    /\ UNCHANGED <<variant, realtime, last_toggle, btn,
                   raced, lastStamp, toggles, held, presses, remotes, polled, late>>

NextInvert == InvertStatement \/ SetStatement

SpecInvert == InitInvert /\ [][NextInvert]_vars

\* x with bit 0 flipped and every other bit kept
FlipBit0(x) == IF x % 2 = 0 THEN x + 1 ELSE x - 1

C20_ToggleMissesCurtain ==
    [][ variant = "curtain" =>
          /\ (pc = "read" /\ pc' = "write") => onoff_value' = Invalid
          /\ (pc = "write" /\ pc' # "write")
                => /\ store' = store
                   /\ pin' = pin
                   /\ \A i \in DOMAIN calls' : calls'[i].path # Route(variant, ch) ]_vars

C20_Witness ==
    /\ variant = "curtain"
    /\ toggles[1] >= 1
    /\ pc = "idle"
    /\ remotes = 1
    /\ store[Route(variant, 1)] = U8(MaxRaw)
    /\ ~pin[LED_PIN_1]

(***************************************************************************)
(* loop() long after boot: the last toggle was stamped at a true time      *)
(* around half the word or around the wraparound of millis(), a chosen     *)
(* time ago, with the buttons at any level.                                *)
(***************************************************************************)
\* true times of the last toggle: about half the word, about the whole word
WrapStamps ==
    { Word \div 2 - 1, Word \div 2, Word - DEBOUNCE_DELAY - 1, Word - 1, Word,
      Word + Word \div 2 }

\* true times elapsed since: about the debounce window, about half the word,
\* just below the whole word
WrapElapsed ==
    ((DEBOUNCE_DELAY - MaxJitter)..(DEBOUNCE_DELAY + MaxJitter))
        \cup {0, Word \div 2 - 1, Word \div 2, Word - 1}

InitWrap ==
    /\ variant \in Variants
    /\ \E t \in WrapStamps :
        /\ last_toggle = ToInt(t % Word)
        /\ lastStamp \in [Channels(variant) -> {t, NoTime}]
        /\ \E c \in Channels(variant) : lastStamp[c] = t
        /\ \E e \in WrapElapsed : realtime = t + e
    /\ toggles = [c \in Channels(variant) |-> IF lastStamp[c] = NoTime THEN 0 ELSE 1]
    /\ btn \in [ButtonPins(variant) -> BOOLEAN]
    /\ held = [p \in ButtonPins(variant) |->
                 IF btn[p] THEN NoPress ELSE [start |-> realtime, n |-> 0]]
    /\ presses = [p \in ButtonPins(variant) |-> IF btn[p] THEN 0 ELSE 1]
    /\ pin = [p \in LedPins(variant) |-> FALSE]
    /\ store = InitialStore(variant)
    /\ pc = "idle"
    /\ ch = 1
    /\ onoff_value = Invalid
    /\ raced = NoRace
    /\ calls = <<>>
    /\ remotes = 0
    /\ fired = {}
    /\ polled = "no"
    /\ late = TRUE

NextWrap == LoopGate \/ LoopButton \/ LoopRead \/ LoopWrite

SpecWrap == InitWrap /\ [][NextWrap]_vars

\* true time of the last toggle of any channel
RECURSIVE MaxOf(_)
MaxOf(S) == LET x == CHOOSE y \in S : TRUE IN
            IF S = {x} THEN x
            ELSE LET m == MaxOf(S \ {x}) IN IF x > m THEN x ELSE m
LastToggleTime == MaxOf({ lastStamp[c] : c \in Channels(variant) })

\* C21: whenever less than a whole word of milliseconds has truly elapsed since
\* the last toggle, the gate of loop() is open exactly when more than
\* DEBOUNCE_DELAY ms have elapsed, with last_toggle negative as an int, with
\* millis() past half the word and with millis() wrapped since the toggle.
C21_GateAcrossWrap ==
    (LastToggleTime # NoTime /\ realtime - LastToggleTime < Word)
        => (GateOpen <=> realtime - LastToggleTime > DEBOUNCE_DELAY)

C21_Witness ==
    /\ LastToggleTime = Word - 1
    /\ last_toggle < 0
    /\ realtime = Word + DEBOUNCE_DELAY
    /\ millis = DEBOUNCE_DELAY
    /\ polled = "open"
    /\ pc = "button"

\* C22: while millis() is at most DEBOUNCE_DELAY after boot, last_toggle is the
\* 0 it started with, the test of loop() is closed and no channel has been
\* toggled, with the buttons at any level: any toggle is at millis() > 500.
C22_BootSuppressed ==
    realtime <= DEBOUNCE_DELAY
        => /\ last_toggle = 0
           /\ pc = "idle"
           /\ polled # "open"
           /\ \A c \in Channels(variant) : toggles[c] = 0 /\ lastStamp[c] = NoTime
           /\ \A b \in DOMAIN held : held[b].n = 0

C22_Witness ==
    /\ realtime = DEBOUNCE_DELAY
    /\ polled = "closed"
    /\ \A c \in Channels(variant) : toggles[c] = 0
    /\ \E b \in DOMAIN btn : ~btn[b] /\ HeldFor(b) = DEBOUNCE_DELAY

\* the press of button b in progress began, and is now, inside the debounce
\* window of one and the same stamp of last_toggle: a toggle made before the
\* press began, or the 0 of boot
InWindowPress(b) ==
    /\ ~btn[b]
    /\ \/ \E d \in Channels(variant) :
            /\ lastStamp[d] # NoTime
            /\ held[b].start > lastStamp[d]
            /\ realtime - lastStamp[d] <= DEBOUNCE_DELAY
       \/ LastToggleTime = NoTime /\ realtime <= DEBOUNCE_DELAY

\* C23: a press that begins and ends inside one debounce window has triggered
\* nothing when it ends (and a trigger needs the button LOW, so none follows).
C23_PressInWindowLost ==
    [][ \A b \in DOMAIN btn :
            (Released(b) /\ InWindowPress(b)) => held[b].n = 0 ]_vars

\* C23, amended: loop() triggers a channel only on reading its button LOW, and
\* with the elapsed time inside the debounce window only for button 2 in the
\* iteration that has just triggered channel 1; a press of button 1, or of the
\* only button, that begins and ends inside one window has triggered nothing.
C23_NotLatched ==
    [][ \A c \in Channels(variant) :
            LET b == TOGGLE_BUTTON_PIN(c) IN
            /\ Trigger(c)
                => /\ ~btn[b]
                   /\ Elapsed <= DEBOUNCE_DELAY => (c = 2 /\ 1 \in fired)
            /\ (Released(b) /\ InWindowPress(b) /\ c = 1) => held[b].n = 0 ]_vars

C23_Witness ==
    /\ variant = "light"
    /\ presses[TOGGLE_BUTTON_PIN_1] = 1
    /\ btn[TOGGLE_BUTTON_PIN_1]
    /\ toggles[1] = 0
    /\ realtime > DEBOUNCE_DELAY
    /\ polled = "open"
    /\ pc = "idle"
    /\ ~late

\* C24: an LED pin changes level only in a step in which on_attribute_update
\* ran with PRE_UPDATE for that pin's channel, with the new level as the value,
\* and wrote it; the steps of loop() that make no update leave the pins alone.
C24_PinsOnlyByCallback ==
    [][ /\ \A p \in DOMAIN pin :
              pin'[p] # pin[p]
                  => \E c \in Channels(variant) : \E i \in DOMAIN calls' :
                        /\ LED_PIN(c) = p
                        /\ calls'[i].type = "PRE_UPDATE"
                        /\ calls'[i].path = Route(variant, c)
                        /\ ValB(calls'[i].val) = pin'[p]
                        /\ calls'[i].writes = << <<p, pin'[p]>> >>
        /\ (pc # "write" /\ pc' # pc) => pin' = pin ]_vars

C24_Witness ==
    /\ variant = "two"
    /\ toggles[2] = 1
    /\ pin[LED_PIN_2]
    /\ Len(calls) = 2
    /\ calls[1].type = "PRE_UPDATE"
    /\ calls[1].path = Route(variant, 2)
    /\ calls[1].writes = << <<LED_PIN_2, TRUE>> >>

\* C25: a notification of a type other than PRE_UPDATE, whatever its triple and
\* value, writes no pin and returns ESP_OK: the recorded calls show it, and so
\* does the callback applied to the pin levels of every reachable state.
C25_OnlyPreUpdateWrites ==
    /\ \A i \in DOMAIN calls :
          calls[i].type # "PRE_UPDATE"
              => calls[i].writes = <<>> /\ calls[i].ret = "ESP_OK"
    /\ \A n \in Notifications :
          n.type # "PRE_UPDATE"
              => /\ Notify(n, pin).pin = pin
                 /\ Notify(n, pin).writes = <<>>
                 /\ Notify(n, pin).ret = "ESP_OK"

C25_Witness ==
    /\ variant = "light"
    /\ calls # <<>>
    /\ calls[1].type = "POST_UPDATE"
    /\ calls[1].path = Route(variant, 1)
    /\ calls[1].val = Bool(TRUE)
    /\ calls[1].writes = <<>>
    /\ calls[1].ret = "ESP_OK"
    /\ ~pin[LED_PIN_1]

====
